---- MODULE Spec2Model ----
(***************************************************************************)
(* A model of scripts/img_to_bytes.py: a command-line script that opens an *)
(* image with Pillow and prints the bytes of image.tobytes() as a Python   *)
(* list of floats.                                                         *)
(*                                                                         *)
(* One run of the script is a sequence of steps, one per call the script   *)
(* makes (len(sys.argv), os.path.exists, Image.open, Image.tobytes, the    *)
(* list comprehension, print, exit).  The file system is shared with the   *)
(* environment, which may remove a file between two steps of a run.        *)
(* Standard output is a sequence of tokens: the literal pieces of the      *)
(* f-strings, the interpolated argument, and, for the list, one token per  *)
(* character.                                                              *)
(***************************************************************************)
EXTENDS Integers, Sequences, FiniteSets, TLC

VARIABLES
    argv,      \* sys.argv of the current run: <<program, arg1, ...>>
    fs,        \* the file system: path -> file
    pc,        \* the position of the current run in main
    stdout,    \* what the current run has written to standard output
    ret,       \* main's return value: <<>> while there is none, <<code>> after
    status,    \* the process exit status: <<>> while running, <<code>> after
    exc,       \* the uncaught exception that ended main, or "none"
    image,     \* the handle Image.open returned: <<>> or <<file>>
    buf,       \* the bytes image.tobytes() returned
    vals,      \* the list the comprehension has built so far
    calls,     \* the calls main made in this run, in order
    fs0,       \* the file system as it was when the current run started
    touched,   \* whether the file system changed during the current run
    prev,      \* the previous run: <<>> or <<[argv, fs0, touched, out, status]>>
    runs       \* the number of runs started

vars == <<argv, fs, pc, stdout, ret, status, exc, image, buf, vals, calls,
          fs0, touched, prev, runs>>

----------------------------------------------------------------------------
(* Bounds of the model *)

\* the most command-line arguments (after the program name) of a run
MaxArgs == 2
\* the largest width and height of an image file
MaxDim == 2
\* the number of runs of the script in one behaviour
MaxRuns == 2

----------------------------------------------------------------------------
(* Inputs *)

ProgNames == {"img_to_bytes.py", "./dump"}
Paths == {"a.png", "b.png"}

\* every argument list: a program name followed by 0..MaxArgs paths
Argvs ==
    UNION { { <<p>> \o a : p \in ProgNames, a \in [1..n -> Paths] } : n \in 0..MaxArgs }

\* Pillow modes of the modelled image files: bilevel, 8-bit grey, 8-bit RGB,
\* 16-bit grey
Modes == {"1", "L", "RGB", "I;16"}

NoFile == [kind |-> "absent", mode |-> "-", w |-> 0, h |-> 0]

\* a file that exists: unreadable (no read permission), corrupt (not an image),
\* truncated (a valid header and missing pixel data), or a valid image
OtherFiles ==
    { [kind |-> "unreadable", mode |-> "-", w |-> 0, h |-> 0],
      [kind |-> "corrupt", mode |-> "-", w |-> 0, h |-> 0],
      [kind |-> "truncated", mode |-> "RGB", w |-> 1, h |-> 1] }

Images ==
    { [kind |-> "image", mode |-> m, w |-> x, h |-> y] :
        m \in Modes, x \in 1..MaxDim, y \in 1..MaxDim }

Files == {NoFile} \cup OtherFiles \cup Images

----------------------------------------------------------------------------
(* The decoding collaborator: Pillow's Image.tobytes(), which encodes the   *)
(* decoded pixels with the "raw" encoder in the image's own mode, row by    *)
(* row.                                                                     *)

\* the number of bands (channels) of a mode
Bands(mode) == IF mode = "RGB" THEN 3 ELSE 1

\* the sample values of the modelled files, by position
Pattern1 == <<255, 0, 0, 255, 255>>
Pattern8 == <<128, 0, 255, 7, 200, 64, 10>>
Pattern16 == <<4660, 65535, 256, 0, 513>>

PatternOf(mode) ==
    IF mode = "1" THEN Pattern1 ELSE IF mode = "I;16" THEN Pattern16 ELSE Pattern8

\* the decoded samples of an image file, row-major, bands interleaved
Samples(f) ==
    LET pat == PatternOf(f.mode)
    IN  [k \in 1..(f.w * f.h * Bands(f.mode)) |-> pat[((k - 1) % Len(pat)) + 1]]

\* the samples of row r (1-based)
Row(f, r) ==
    LET n == f.w * Bands(f.mode)
    IN  SubSeq(Samples(f), (r - 1) * n + 1, r * n)

\* 2^n
RECURSIVE Pow2(_)
Pow2(n) == IF n = 0 THEN 1 ELSE 2 * Pow2(n - 1)

\* the sum of f[i] for i in lo..hi
RECURSIVE SumTo(_, _, _)
SumTo(f, lo, hi) == IF lo > hi THEN 0 ELSE f[lo] + SumTo(f, lo + 1, hi)

\* mode "1": eight pixels to a byte, most significant bit first, each row
\* padded to a whole byte
PackBits(row) ==
    [j \in 1..((Len(row) + 7) \div 8) |->
        SumTo([b \in 0..7 |->
                  LET i == 8 * (j - 1) + b + 1
                  IN  IF i <= Len(row) /\ row[i] # 0 THEN Pow2(7 - b) ELSE 0],
              0, 7)]

\* mode "I;16": two bytes a sample, little-endian
Pack16(row) ==
    [j \in 1..(2 * Len(row)) |->
        LET s == row[(j + 1) \div 2]
        IN  IF j % 2 = 1 THEN s % 256 ELSE s \div 256]

\* EncodeRow with every row padded with zero bytes to a multiple of four
EncodeRowPadded(mode, row) ==
    LET r == IF mode = "1" THEN PackBits(row)
             ELSE IF mode = "I;16" THEN Pack16(row)
             ELSE row
    IN  r \o [k \in 1..((4 - (Len(r) % 4)) % 4) |-> 0]

EncodeRow(mode, row) ==
    IF mode = "1" THEN PackBits(row)
    ELSE IF mode = "I;16" THEN Pack16(row)
    ELSE row

\* the concatenation of rows lo..hi
RECURSIVE EncodeRows(_, _, _)
EncodeRows(f, lo, hi) ==
    IF lo > hi THEN <<>>
    ELSE EncodeRow(f.mode, Row(f, lo)) \o EncodeRows(f, lo + 1, hi)

\* image.tobytes()
ToBytes(f) == EncodeRows(f, 1, f.h)

----------------------------------------------------------------------------
(* float(i) and the text print() writes *)

\* float(i) of a byte: the double m * 2^e with m odd (or 0), which is exact
RECURSIVE Normalise(_, _)
Normalise(m, e) ==
    IF m = 0 THEN [m |-> 0, e |-> 0]
    ELSE IF m % 2 = 0 THEN Normalise(m \div 2, e + 1)
    ELSE [m |-> m, e |-> e]

Float(i) == Normalise(i, 0)

\* the numeric value of a float
FloatValue(x) == x.m * Pow2(x.e)

DigitChars == <<"0", "1", "2", "3", "4", "5", "6", "7", "8", "9">>

\* str(n) of a natural number, a token per character
RECURSIVE Digits(_)
Digits(n) ==
    IF n < 10 THEN <<DigitChars[n + 1]>>
    ELSE Digits(n \div 10) \o <<DigitChars[(n % 10) + 1]>>

\* repr(x) of an integral float: the integer, then ".0"
FloatRepr(x) == Digits(FloatValue(x)) \o <<".", "0">>

\* the elements' reprs joined with ", "
RECURSIVE JoinReprs(_)
JoinReprs(xs) ==
    IF xs = <<>> THEN <<>>
    ELSE IF Len(xs) = 1 THEN FloatRepr(xs[1])
    ELSE FloatRepr(xs[1]) \o <<", ">> \o JoinReprs(Tail(xs))

\* repr of a list of floats
ListRepr(xs) == <<"[">> \o JoinReprs(xs) \o <<"]">>

\* print(f"Usage: {sys.argv[0]} <image>")
UsageLine(a) == <<"Usage: ", a[1], " <image>", "\n">>

\* print(f"Error: {sys.argv[1]} not found.")
NotFoundLine(a) == <<"Error: ", a[2], " not found.", "\n">>

\* print(list)
ListLine(xs) == ListRepr(xs) \o <<"\n">>

----------------------------------------------------------------------------
(* The script *)

\* a run starts on any argument list and any file system that holds at most
\* one valid image (the script opens one file a run)
Init ==
    /\ argv \in Argvs
    /\ fs \in [Paths -> Files]
    /\ Cardinality({p \in Paths : fs[p].kind = "image"}) <= 1
    /\ pc = "argcheck"
    /\ stdout = <<>>
    /\ ret = <<>>
    /\ status = <<>>
    /\ exc = "none"
    /\ image = <<>>
    /\ buf = <<>>
    /\ vals = <<>>
    /\ calls = <<>>
    /\ fs0 = fs
    /\ touched = FALSE
    /\ prev = <<>>
    /\ runs = 1

\* ArgCheck with the test "len(sys.argv) < 2": extra arguments are let through
ArgCheckAtLeast ==
    /\ pc = "argcheck"
    /\ calls' = Append(calls, "len")
    /\ IF Len(argv) < 2
       THEN /\ stdout' = stdout \o UsageLine(argv)
            /\ ret' = <<1>>
            /\ pc' = "return"
       ELSE /\ pc' = "exists"
            /\ UNCHANGED <<stdout, ret>>
    /\ UNCHANGED <<argv, fs, status, exc, image, buf, vals, fs0, touched, prev, runs>>

\* ArgCheck with the existence check moved in front of the count check
ArgCheckExistsFirst ==
    /\ pc = "argcheck"
    /\ IF Len(argv) >= 2 /\ fs[argv[2]].kind = "absent"
       THEN /\ calls' = calls \o <<"exists">>
            /\ stdout' = stdout \o NotFoundLine(argv)
            /\ ret' = <<1>>
            /\ pc' = "return"
       ELSE IF Len(argv) # 2
       THEN /\ calls' = calls \o <<"exists", "len">>
            /\ stdout' = stdout \o UsageLine(argv)
            /\ ret' = <<1>>
            /\ pc' = "return"
       ELSE /\ calls' = calls \o <<"exists", "len">>
            /\ pc' = "open"
            /\ UNCHANGED <<stdout, ret>>
    /\ UNCHANGED <<argv, fs, status, exc, image, buf, vals, fs0, touched, prev, runs>>

\* if len(sys.argv) != 2: print usage; return 1
ArgCheck ==
    /\ pc = "argcheck"
    /\ calls' = Append(calls, "len")
    /\ IF Len(argv) # 2
       THEN /\ stdout' = stdout \o UsageLine(argv)
            /\ ret' = <<1>>
            /\ pc' = "return"
       ELSE /\ pc' = "exists"
            /\ UNCHANGED <<stdout, ret>>
    /\ UNCHANGED <<argv, fs, status, exc, image, buf, vals, fs0, touched, prev, runs>>

\* ExistsCheck that interpolates sys.argv[0] instead of sys.argv[1]
ExistsCheckProgName ==
    /\ pc = "exists"
    /\ calls' = Append(calls, "exists")
    /\ IF fs[argv[2]].kind = "absent"
       THEN /\ stdout' = stdout \o <<"Error: ", argv[1], " not found.", "\n">>
            /\ ret' = <<1>>
            /\ pc' = "return"
       ELSE /\ pc' = "open"
            /\ UNCHANGED <<stdout, ret>>
    /\ UNCHANGED <<argv, fs, status, exc, image, buf, vals, fs0, touched, prev, runs>>

\* ExistsCheck without its return: the message is printed and main goes on
ExistsCheckNoReturn ==
    /\ pc = "exists"
    /\ calls' = Append(calls, "exists")
    /\ stdout' = IF fs[argv[2]].kind = "absent"
                 THEN stdout \o NotFoundLine(argv)
                 ELSE stdout
    /\ pc' = "open"
    /\ UNCHANGED ret
    /\ UNCHANGED <<argv, fs, status, exc, image, buf, vals, fs0, touched, prev, runs>>

\* if not os.path.exists(sys.argv[1]): print not found; return 1
ExistsCheck ==
    /\ pc = "exists"
    /\ calls' = Append(calls, "exists")
    /\ IF fs[argv[2]].kind = "absent"
       THEN /\ stdout' = stdout \o NotFoundLine(argv)
            /\ ret' = <<1>>
            /\ pc' = "return"
       ELSE /\ pc' = "open"
            /\ UNCHANGED <<stdout, ret>>
    /\ UNCHANGED <<argv, fs, status, exc, image, buf, vals, fs0, touched, prev, runs>>

\* the exception Image.open raises on a file, or "none"
OpenError(f) ==
    IF f.kind = "absent" THEN "FileNotFoundError"
    ELSE IF f.kind = "unreadable" THEN "PermissionError"
    ELSE IF f.kind = "corrupt" THEN "UnidentifiedImageError"
    ELSE "none"

\* Open inside a try/except that reports every failure as a missing file
OpenCatches ==
    /\ pc = "open"
    /\ calls' = Append(calls, "open")
    /\ LET f == fs[argv[2]]
       IN  IF OpenError(f) # "none"
           THEN /\ stdout' = stdout \o NotFoundLine(argv)
                /\ ret' = <<1>>
                /\ pc' = "return"
                /\ UNCHANGED image
           ELSE /\ image' = <<f>>
                /\ pc' = "tobytes"
                /\ UNCHANGED <<stdout, ret>>
    /\ UNCHANGED <<argv, fs, status, exc, buf, vals, fs0, touched, prev, runs>>

\* image = Image.open(sys.argv[1]); nothing in main catches what it raises
Open ==
    /\ pc = "open"
    /\ calls' = Append(calls, "open")
    /\ LET f == fs[argv[2]]
       IN  IF OpenError(f) # "none"
           THEN /\ exc' = OpenError(f)
                /\ pc' = "raised"
                /\ UNCHANGED image
           ELSE /\ image' = <<f>>
                /\ pc' = "tobytes"
                /\ UNCHANGED exc
    /\ UNCHANGED <<argv, fs, stdout, ret, status, buf, vals, fs0, touched, prev, runs>>

\* image.tobytes(): loads the pixel data (which fails on a truncated file) and
\* encodes it
CallToBytes ==
    /\ pc = "tobytes"
    /\ calls' = Append(calls, "tobytes")
    /\ IF image[1].kind = "truncated"
       THEN /\ exc' = "OSError"
            /\ pc' = "raised"
            /\ UNCHANGED buf
       ELSE /\ buf' = ToBytes(image[1])
            /\ pc' = "convert"
            /\ UNCHANGED exc
    /\ UNCHANGED <<argv, fs, stdout, ret, status, image, vals, fs0, touched, prev, runs>>

\* Convert that stops one element early
ConvertSkipsLast ==
    /\ pc = "convert"
    /\ IF Len(vals) < Len(buf) - 1
       THEN /\ vals' = Append(vals, Float(buf[Len(vals) + 1]))
            /\ UNCHANGED pc
       ELSE /\ pc' = "print"
            /\ UNCHANGED vals
    /\ UNCHANGED <<argv, fs, stdout, ret, status, exc, image, buf, calls, fs0, touched,
                   prev, runs>>

\* Convert that writes each element as soon as it is converted
ConvertStreams ==
    /\ pc = "convert"
    /\ IF Len(vals) < Len(buf)
       THEN /\ vals' = Append(vals, Float(buf[Len(vals) + 1]))
            /\ stdout' = stdout \o (IF vals = <<>> THEN <<"[">> ELSE <<", ">>)
                                \o FloatRepr(Float(buf[Len(vals) + 1]))
            /\ UNCHANGED <<pc, ret>>
       ELSE /\ stdout' = stdout \o <<"]", "\n">>
            /\ ret' = <<0>>
            /\ pc' = "return"
            /\ UNCHANGED vals
    /\ UNCHANGED <<argv, fs, status, exc, image, buf, calls, fs0, touched, prev, runs>>

\* [float(i) for i in ...]: one element a step, then on to print
Convert ==
    /\ pc = "convert"
    /\ IF Len(vals) < Len(buf)
       THEN /\ vals' = Append(vals, Float(buf[Len(vals) + 1]))
            /\ UNCHANGED pc
       ELSE /\ pc' = "print"
            /\ UNCHANGED vals
    /\ UNCHANGED <<argv, fs, stdout, ret, status, exc, image, buf, calls, fs0, touched,
                   prev, runs>>

\* PrintList that returns 1
PrintListReturns1 ==
    /\ pc = "print"
    /\ calls' = Append(calls, "print")
    /\ stdout' = stdout \o ListLine(vals)
    /\ ret' = <<1>>
    /\ pc' = "return"
    /\ UNCHANGED <<argv, fs, status, exc, image, buf, vals, fs0, touched, prev, runs>>

\* print(the list); return 0
PrintList ==
    /\ pc = "print"
    /\ calls' = Append(calls, "print")
    /\ stdout' = stdout \o ListLine(vals)
    /\ ret' = <<0>>
    /\ pc' = "return"
    /\ UNCHANGED <<argv, fs, status, exc, image, buf, vals, fs0, touched, prev, runs>>

\* exit(main()): main's return value is the exit status; an uncaught exception
\* ends the interpreter with status 1
Exit ==
    /\ pc \in {"return", "raised"}
    /\ status' = IF pc = "return" THEN ret ELSE <<1>>
    /\ pc' = "done"
    /\ UNCHANGED <<argv, fs, stdout, ret, exc, image, buf, vals, calls, fs0, touched,
                   prev, runs>>

\* the environment removes a file while the script runs
RemoveFile ==
    /\ pc # "done"
    /\ \E p \in Paths :
        /\ fs[p].kind # "absent"
        /\ fs' = [fs EXCEPT ![p] = NoFile]
    /\ touched' = TRUE
    /\ UNCHANGED <<argv, pc, stdout, ret, status, exc, image, buf, vals, calls, fs0,
                   prev, runs>>

\* Rerun in which the new process appends to the output of the last one
RerunKeepsOutput ==
    /\ pc = "done"
    /\ runs < MaxRuns
    /\ runs' = runs + 1
    /\ prev' = <<[argv |-> argv, fs0 |-> fs0, touched |-> touched,
                  out |-> stdout, status |-> status]>>
    /\ pc' = "argcheck"
    /\ ret' = <<>>
    /\ status' = <<>>
    /\ exc' = "none"
    /\ image' = <<>>
    /\ buf' = <<>>
    /\ vals' = <<>>
    /\ calls' = <<>>
    /\ fs0' = fs
    /\ touched' = FALSE
    /\ UNCHANGED <<argv, fs, stdout>>

\* the script is run again with the same argument list: a new process, with
\* its own standard output and variables
Rerun ==
    /\ pc = "done"
    /\ runs < MaxRuns
    /\ runs' = runs + 1
    /\ prev' = <<[argv |-> argv, fs0 |-> fs0, touched |-> touched,
                  out |-> stdout, status |-> status]>>
    /\ pc' = "argcheck"
    /\ stdout' = <<>>
    /\ ret' = <<>>
    /\ status' = <<>>
    /\ exc' = "none"
    /\ image' = <<>>
    /\ buf' = <<>>
    /\ vals' = <<>>
    /\ calls' = <<>>
    /\ fs0' = fs
    /\ touched' = FALSE
    /\ UNCHANGED <<argv, fs>>

\* the list comprehension runs out of memory: an uncaught MemoryError
ConvertFail ==
    /\ pc = "convert"
    /\ exc' = "MemoryError"
    /\ pc' = "raised"
    /\ UNCHANGED <<argv, fs, stdout, ret, status, image, buf, vals, calls, fs0, touched,
                   prev, runs>>

Next ==
    \/ ArgCheck
    \/ ExistsCheck
    \/ Open
    \/ CallToBytes
    \/ Convert
    \/ PrintList
    \/ Exit
    \/ RemoveFile
    \/ Rerun

Spec == Init /\ [][Next]_vars

\* the script under memory pressure: the list comprehension may fail
NextOOM ==
    \/ Next
    \/ ConvertFail

SpecOOM == Init /\ [][NextOOM]_vars

----------------------------------------------------------------------------
(* Reading standard output back *)

Done == pc = "done"

\* main made the call c in this run
Called(c) == \E i \in 1..Len(calls) : calls[i] = c

\* s is a prefix of t
IsPrefix(s, t) == Len(s) <= Len(t) /\ SubSeq(t, 1, Len(s)) = s

IsDigit(c) == \E d \in 1..10 : DigitChars[d] = c

DigitVal(c) == (CHOOSE d \in 1..10 : DigitChars[d] = c) - 1

\* the number a sequence of digit characters writes
RECURSIVE NumVal(_)
NumVal(ds) ==
    IF ds = <<>> THEN 0
    ELSE 10 * NumVal(SubSeq(ds, 1, Len(ds) - 1)) + DigitVal(ds[Len(ds)])

\* the value of one printed element "<digits>.0", or -1 when it is not one
ParseFloat(e) ==
    IF /\ Len(e) >= 3
       /\ e[Len(e) - 1] = "."
       /\ e[Len(e)] = "0"
       /\ \A i \in 1..(Len(e) - 2) : IsDigit(e[i])
    THEN NumVal(SubSeq(e, 1, Len(e) - 2))
    ELSE 0 - 1

\* the position of the first ", " of s from position i on, or Len(s) + 1
RECURSIVE NextComma(_, _)
NextComma(s, i) ==
    IF i > Len(s) \/ s[i] = ", " THEN i ELSE NextComma(s, i + 1)

\* the elements of a list body, split at ", "
RECURSIVE SplitElems(_)
SplitElems(s) ==
    LET i == NextComma(s, 1)
    IN  IF i > Len(s) THEN <<s>>
        ELSE <<SubSeq(s, 1, i - 1)>> \o SplitElems(SubSeq(s, i + 1, Len(s)))

\* out is one line "[...]" followed by a newline
IsBracketed(out) ==
    /\ Len(out) >= 3
    /\ out[1] = "["
    /\ out[Len(out) - 1] = "]"
    /\ out[Len(out)] = "\n"

\* the values of the list a line prints; <<-1>> when the line is not a list
ParseList(out) ==
    IF ~IsBracketed(out) THEN <<0 - 1>>
    ELSE IF Len(out) = 3 THEN <<>>
    ELSE LET es == SplitElems(SubSeq(out, 2, Len(out) - 2))
         IN  [i \in 1..Len(es) |-> ParseFloat(es[i])]

\* out is exactly one line holding a list of floats
IsListLine(out) ==
    /\ IsBracketed(out)
    /\ \A i \in 1..Len(ParseList(out)) : ParseList(out)[i] >= 0

\* out is exactly the usage line of the argument list a
IsUsage(out, a) == out = <<"Usage: ", a[1], " <image>", "\n">>

\* out is exactly the not-found line of the argument list a
IsNotFound(out, a) ==
    /\ Len(a) >= 2
    /\ out = <<"Error: ", a[2], " not found.", "\n">>

\* out holds a piece of a printed list
HasListToken(out) ==
    \E i \in 1..Len(out) : out[i] \in {"[", "]", ", ", "."} \/ IsDigit(out[i])

\* how many of the three kinds of line out is
LineKinds(out, a) ==
    (IF IsUsage(out, a) THEN 1 ELSE 0) + (IF IsNotFound(out, a) THEN 1 ELSE 0)
        + (IF IsListLine(out) THEN 1 ELSE 0)

----------------------------------------------------------------------------
(* The claims *)

\* C1: a run whose argument count (without the program name) is not one prints
\* "Usage: <program> <image>", <program> being sys.argv[0], and exits with 1.
C1_UsageOnWrongArgCount ==
    (Done /\ Len(argv) # 2) =>
        /\ stdout = <<"Usage: ", argv[1], " <image>", "\n">>
        /\ status = <<1>>

\* a run with two arguments has ended with the usage line and status 1
C1_Witness ==
    /\ Done
    /\ Len(argv) = 3
    /\ argv[1] = "./dump"
    /\ stdout = <<"Usage: ", "./dump", " <image>", "\n">>
    /\ status = <<1>>

\* C2: a run with one argument naming a path that does not exist prints
\* "Error: <path> not found." with the argument unchanged and exits with 1.
C2_NotFoundOnMissingPath ==
    (Done /\ Len(argv) = 2 /\ fs0[argv[2]].kind = "absent") =>
        /\ stdout = <<"Error: ", argv[2], " not found.", "\n">>
        /\ status = <<1>>

\* a run on the missing path b.png has ended with the not-found line
C2_Witness ==
    /\ Done
    /\ argv = <<"img_to_bytes.py", "b.png">>
    /\ fs0["b.png"].kind = "absent"
    /\ stdout = <<"Error: ", "b.png", " not found.", "\n">>
    /\ status = <<1>>

\* C3: when the one argument names an existing file that decodes, the printed
\* list read back is the raw byte buffer of the image, element for element in
\* the same order, and the run exits with 0.
C3_PrintedListIsBuffer ==
    /\ (Done /\ Len(argv) = 2 /\ ~touched /\ fs0[argv[2]].kind = "image") =>
           image = <<fs0[argv[2]]>>
    /\ (Done /\ image # <<>> /\ image[1].kind = "image") =>
           /\ ParseList(stdout) = ToBytes(image[1])
           /\ status = <<0>>

\* a 2x1 RGB image has been printed: six values, in the order of the buffer
C3_Witness ==
    /\ Done
    /\ image # <<>>
    /\ image[1] = [kind |-> "image", mode |-> "RGB", w |-> 2, h |-> 1]
    /\ ParseList(stdout) = <<128, 0, 255, 7, 200, 64>>
    /\ status = <<0>>

\* C4 as stated: the printed list of a valid image has width * height *
\* channels elements, each in 0..255.
C4_LengthIsWidthHeightChannels ==
    (Done /\ ret = <<0>>) =>
        LET f == image[1]
            xs == ParseList(stdout)
        IN  /\ Len(xs) = f.w * f.h * Bands(f.mode)
            /\ \A i \in 1..Len(xs) : xs[i] \in 0..255

\* C4 amended: the printed list has height * (bytes of a row) elements, each in
\* 0..255: width * channels bytes a row for a mode with one byte a sample (L,
\* RGB), (width + 7) div 8 for the bilevel mode 1, 2 * width for I;16.
C4_LengthIsHeightTimesRowBytes ==
    (Done /\ ret = <<0>>) =>
        LET f == image[1]
            xs == ParseList(stdout)
        IN  /\ f.mode \in {"L", "RGB"} => Len(xs) = f.w * f.h * Bands(f.mode)
            /\ f.mode = "1" => Len(xs) = ((f.w + 7) \div 8) * f.h
            /\ f.mode = "I;16" => Len(xs) = 2 * f.w * f.h
            /\ \A i \in 1..Len(xs) : xs[i] \in 0..255

\* a 2x2 RGB image has been printed: twelve values
C4_Witness ==
    /\ Done
    /\ ret = <<0>>
    /\ image[1].mode = "RGB"
    /\ image[1].w = 2
    /\ image[1].h = 2
    /\ Len(ParseList(stdout)) = 12

\* C5: a corrupt, unreadable or truncated file, or one removed between the
\* existence check and the decode, raises an exception main does not catch;
\* such a run ends with a non-zero status and nothing on standard output.
C5_FailuresNotCaught ==
    /\ (Done /\ exc # "none") =>
           /\ status # <<>>
           /\ status[1] # 0
           /\ ret = <<>>
           /\ stdout = <<>>
    /\ (Done /\ Len(argv) = 2 /\ ~touched
             /\ fs0[argv[2]].kind \in {"corrupt", "unreadable", "truncated"}) =>
           exc # "none"
    /\ (Done /\ Len(argv) = 2 /\ Called("open") /\ image = <<>>
             /\ fs0[argv[2]].kind \in {"image", "truncated"}) =>
           exc = "FileNotFoundError"

\* a file that passed the existence check was removed before Image.open
C5_Witness ==
    /\ Done
    /\ exc = "FileNotFoundError"
    /\ fs0[argv[2]].kind = "image"
    /\ status = <<1>>
    /\ stdout = <<>>

\* C6: a finished run has status 0 exactly when it printed the list; main
\* returned 1 exactly when the argument count was wrong or the file was not
\* found; no run exits 0 after the usage or not-found line, or 1 after the list.
C6_ExitCodes ==
    Done =>
        /\ status = <<0>> <=> IsListLine(stdout)
        /\ ret = <<1>> <=> (Len(argv) # 2 \/ IsNotFound(stdout, argv))
        /\ ret = <<1>> => (Len(argv) # 2 \/ fs[argv[2]].kind = "absent")
        /\ (Len(argv) # 2 \/ fs0[argv[2]].kind = "absent") => ret = <<1>>
        /\ (IsUsage(stdout, argv) \/ IsNotFound(stdout, argv)) => status = <<1>>
        /\ IsListLine(stdout) => ret = <<0>>

\* a run that printed a list of two values has ended with status 0
C6_Witness ==
    /\ Done
    /\ status = <<0>>
    /\ ret = <<0>>
    /\ Len(ParseList(stdout)) = 2
    /\ IsListLine(stdout)

\* C7 as stated: the standard output of a finished run is exactly one of the
\* usage line, the not-found line and the list line.
C7_ExactlyOneLine == Done => LineKinds(stdout, argv) = 1

\* C7 amended: standard output never holds more than one of the three lines;
\* a run in which main returns has written exactly one of them, and a run that
\* an uncaught exception ends has written nothing.
C7_OneLineOrNothing ==
    /\ stdout = <<>> \/ LineKinds(stdout, argv) = 1
    /\ (Done /\ exc = "none") => LineKinds(stdout, argv) = 1
    /\ (Done /\ exc # "none") => stdout = <<>>

\* a run on a corrupt file has ended without writing anything
C7_Witness ==
    /\ Done
    /\ exc = "UnidentifiedImageError"
    /\ stdout = <<>>
    /\ ret = <<>>

C9_StepOrder ==
    /\ IsPrefix(calls, <<"len", "exists", "open", "tobytes", "print">>)
    /\ Called("exists") => Len(argv) = 2
    /\ Called("open") => (Len(argv) = 2 /\ fs0[argv[2]].kind # "absent")
    /\ (Done /\ Len(argv) # 2) => (IsUsage(stdout, argv) /\ calls = <<"len">>)
    /\ (IsUsage(stdout, argv) \/ IsNotFound(stdout, argv)) =>
           (~Called("open") /\ ~Called("tobytes"))

\* a run with two arguments, the first a missing file, printed the usage line
C9_Witness ==
    /\ Done
    /\ Len(argv) = 3
    /\ fs0[argv[2]].kind = "absent"
    /\ IsUsage(stdout, argv)
    /\ calls = <<"len">>

\* C10: standard output holds either no piece of a list or the complete list
\* of the buffer; a run that fails after the image was opened (tobytes or the
\* conversion raising) has written no piece of a list.
C10_AllOrNothing ==
    /\ HasListToken(stdout) =>
           /\ image # <<>>
           /\ IsListLine(stdout)
           /\ ParseList(stdout) = buf
           /\ buf = ToBytes(image[1])
    /\ exc # "none" => ~HasListToken(stdout)

\* the conversion failed after some elements were built: nothing was written
C10_Witness ==
    /\ Done
    /\ exc = "MemoryError"
    /\ Len(vals) >= 1
    /\ Len(vals) < Len(buf)
    /\ stdout = <<>>

====
